---- MODULE Spec2Model ----
(***************************************************************************)
(* Outbound flow control of the dilation layer                             *)
(* (src/wormhole/_dilation/outbound.py, class Outbound).                   *)
(*                                                                         *)
(* A Record is modelled by its seqnum.  A producer and a subchannel are    *)
(* small positive integers; 0 stands for "no producer" / "no subchannel". *)
(* Every public method is one action.  resumeProducing contains a loop     *)
(* whose body calls out (manager._send_record, producer.resumeProducing)   *)
(* and may be re-entered by pauseProducing, so the loop is modelled one    *)
(* iteration per step: pc = "loop" is the position at the `while` test.    *)
(* Exceptions are recorded in last.err under their Python names.           *)
(***************************************************************************)
EXTENDS Integers, Sequences, FiniteSets, TLC

\* ---------------------------------------------------------------- bounds
NumSubchannels == 2
MaxSeq == 2
MaxPending == 1
MaxTurns == 3

Subchannels == 1..NumSubchannels
\* Producers are opaque objects, each tied to one subchannel for its
\* registered lifetime: subchannel sc brings producer sc, and producer
\* NumSubchannels + sc when it registers again before unregistering.
Producers == 1..(2 * NumSubchannels)
NoProducer == 0

VARIABLES
    outbound_queue,          \* _outbound_queue: sent but not retired
    next_outbound_seqnum,    \* _next_outbound_seqnum
    queued_unsent,           \* _queued_unsent: to retry on the new connection
    subchannel_producers,    \* _subchannel_producers: Subchannel -> IProducer
    paused,                  \* _paused
    all_producers,           \* _all_producers: rotates, left-is-next
    pull_producers,          \* _pull_producers
    paused_push_producers,   \* _paused_push_producers
    unpaused_push_producers, \* _unpaused_push_producers
    pc,                      \* "idle", or "loop" inside resumeProducing
    pending,                 \* records built by build_record, not yet queued
    last,                    \* outcome of the last call or loop step
    sent,                    \* seqnums given to manager._send_record on this connection
    call_signals,            \* the first MaxTurns producers resumed by the running loop
    last_signal,             \* per producer: the last thing we told it
    reg_order,               \* producers in the order they joined the rotation
    aligned,                 \* inside the loop: the rotation stood in reg_order on entry
    built,                   \* seqnums of the records build_record returned, in order
    spin                     \* inside the loop: flips at every p.resumeProducing()

vars == <<outbound_queue, next_outbound_seqnum, queued_unsent,
          subchannel_producers, paused, all_producers, pull_producers,
          paused_push_producers, unpaused_push_producers, pc, pending,
          last, sent, call_signals, last_signal, reg_order, aligned,
          built, spin>>

ledger == <<outbound_queue, next_outbound_seqnum, queued_unsent, pending>>
registry == <<subchannel_producers, all_producers, pull_producers,
              paused_push_producers, unpaused_push_producers, reg_order>>
history == <<sent, call_signals, last_signal, aligned, spin>>

\* ---------------------------------------------------------------- helpers
Range(s) == {s[i] : i \in 1..Len(s)}

\* what was done last: the method called (or the step of the loop), the
\* exception it raised ("ok" for none) and the signal it delivered to a
\* producer ("none", "pause" or "resume")
Call(op, err, sig) == [op |-> op, err |-> err, sig |-> sig]

\* deque.remove(x): drops the first occurrence
RECURSIVE RemoveFirst(_, _)
RemoveFirst(s, x) ==
    IF s = <<>> THEN <<>>
    ELSE IF Head(s) = x THEN Tail(s)
    ELSE <<Head(s)>> \o RemoveFirst(Tail(s), x)

\* deque.rotate(-1): the left-most item moves to the end of the line
Rotate(s) == Tail(s) \o <<Head(s)>>

\* the assertions of _check_invariants
CheckInvariants(all, pull, pausedPush, unpausedPush) ==
    /\ pull \cap unpausedPush = {}
    /\ pull \cap pausedPush = {}
    /\ unpausedPush \cap pausedPush = {}
    /\ pull \cup pausedPush \cup unpausedPush = Range(all)

\* variant of TrimAcked that compares with < and so keeps the acked record
RECURSIVE TrimAckedStrict(_, _)
TrimAckedStrict(q, m) ==
    IF q # <<>> /\ Head(q) < m THEN TrimAckedStrict(Tail(q), m) ELSE q

\* the `while` loops of handle_ack: pop from the left while seqnum <= ack
RECURSIVE TrimAcked(_, _)
TrimAcked(q, m) ==
    IF q # <<>> /\ Head(q) <= m THEN TrimAcked(Tail(q), m) ELSE q

\* variant of NextTurn that finds the first waiting producer but leaves
\* the rotation as it was
NextTurnNoRotate(all, eligible) ==
    [p |-> all[CHOOSE i \in 1..Len(all) :
                 /\ all[i] \in eligible
                 /\ \A j \in 1..(i - 1) : all[j] \notin eligible],
     all |-> all]

\* the `while True` loop of _get_next_unpaused_producer: the producer it
\* returns and the rotation it leaves
RECURSIVE NextTurn(_, _)
NextTurn(all, eligible) ==
    IF Head(all) \in eligible THEN [p |-> Head(all), all |-> Rotate(all)]
    ELSE NextTurn(Rotate(all), eligible)

\* variant of LoopCondition that never looks at the flag
LoopConditionAlways(p) == TRUE

\* the test of the `while not self._paused` loop of resumeProducing
LoopCondition(p) == ~p

\* the `for` loop of pauseProducing: set.pop(p) takes no argument, so the
\* first producer of the rotation found in _unpaused_push_producers raises
PauseError(all, unpausedPush) ==
    IF \E i \in 1..Len(all) : all[i] \in unpausedPush THEN "TypeError" ELSE "ok"

\* ---------------------------------------------------------------- Init
Init ==
    /\ outbound_queue = <<>>
    /\ next_outbound_seqnum = 0
    /\ queued_unsent = <<>>
    /\ subchannel_producers = [s \in Subchannels |-> NoProducer]
    /\ paused = TRUE
    /\ all_producers = <<>>
    /\ pull_producers = {}
    /\ paused_push_producers = {}
    /\ unpaused_push_producers = {}
    /\ pc = "idle"
    /\ pending = <<>>
    /\ last = Call("init", "ok", "none")
    /\ sent = <<>>
    /\ call_signals = <<>>
    /\ last_signal = [p \in Producers |-> "none"]
    /\ reg_order = <<>>
    /\ aligned = FALSE
    /\ built = <<>>
    /\ spin = FALSE

\* ---------------------------------------------------------------- ledger
\* variant of NextSeqnum that hands the counter back as it was
NextSeqnumStuck(n) == n

\* line 184: self._next_outbound_seqnum += 1
NextSeqnum(n) == n + 1

build_record ==
    /\ pc = "idle"
    /\ next_outbound_seqnum < MaxSeq
    /\ Len(pending) < MaxPending
    /\ pending' = Append(pending, next_outbound_seqnum)
    /\ built' = Append(built, next_outbound_seqnum)
    /\ next_outbound_seqnum' = NextSeqnum(next_outbound_seqnum)
    /\ last' = Call("build_record", "ok", "none")
    /\ UNCHANGED <<outbound_queue, queued_unsent, paused, pc>>
    /\ UNCHANGED <<registry, history>>

queue_record ==
    /\ pc = "idle"
    /\ pending # <<>>
    /\ outbound_queue' = Append(outbound_queue, Head(pending))
    /\ pending' = Tail(pending)
    /\ last' = Call("queue_record", "ok", "none")
    /\ UNCHANGED <<next_outbound_seqnum, queued_unsent, paused, pc, built>>
    /\ UNCHANGED <<registry, history>>

\* variant of handle_ack without the second loop (lines 264-266): the
\* replay queue keeps what the backlog lost
handle_ack_backlog_only(resp_seqnum) ==
    /\ pc = "idle"
    /\ outbound_queue' = TrimAcked(outbound_queue, resp_seqnum)
    /\ last' = Call("handle_ack", "ok", "none")
    /\ UNCHANGED <<next_outbound_seqnum, queued_unsent, pending, paused, pc, built>>
    /\ UNCHANGED <<registry, history>>

handle_ack(resp_seqnum) ==
    /\ pc = "idle"
    /\ outbound_queue' = TrimAcked(outbound_queue, resp_seqnum)
    /\ queued_unsent' = TrimAcked(queued_unsent, resp_seqnum)
    /\ last' = Call("handle_ack", "ok", "none")
    /\ UNCHANGED <<next_outbound_seqnum, pending, paused, pc, built>>
    /\ UNCHANGED <<registry, history>>

\* ---------------------------------------------------------------- registry
\* streaming = TRUE: IPushProducer, FALSE: IPullProducer.  reent: the
\* producer's resumeProducing fills the connection, which calls our
\* pauseProducing before the producer returns.
\* variant of AdmissionSignal with the two signals exchanged
AdmissionSignalSwapped(isPaused, streaming) ==
    IF isPaused /\ streaming THEN "resume"
    ELSE IF ~isPaused /\ ~streaming THEN "pause"
    ELSE "none"

\* lines 214-223: what the newcomer is told once it is filed
AdmissionSignal(isPaused, streaming) ==
    IF isPaused /\ streaming THEN "pause"
    ELSE IF ~isPaused /\ ~streaming THEN "resume"
    ELSE "none"

subchannel_registerProducer(sc, producer, streaming, reent) ==
    LET dup == subchannel_producers[sc] # NoProducer
        all2 == Append(all_producers, producer)
        \* line 209 names _unpaused_producers, an attribute that is never set
        attrErr == streaming /\ ~paused
        pausedPush2 == IF streaming /\ paused
                       THEN paused_push_producers \cup {producer}
                       ELSE paused_push_producers
        pull2 == IF streaming THEN pull_producers
                 ELSE pull_producers \cup {producer}
        invOk == CheckInvariants(all2, pull2, pausedPush2, unpaused_push_producers)
        sig == AdmissionSignal(paused, streaming)
    IN
    /\ pc = "idle"
    /\ producer = IF dup THEN NumSubchannels + sc ELSE sc
    /\ reent => (~dup /\ ~attrErr /\ invOk /\ sig = "resume")
    /\ IF dup
       THEN \* line 198: self.producer does not exist
            /\ last' = Call("subchannel_registerProducer", "AttributeError", "none")
            /\ UNCHANGED <<registry, paused, last_signal>>
       ELSE /\ subchannel_producers' = [subchannel_producers EXCEPT ![sc] = producer]
            /\ all_producers' = all2
            /\ reg_order' = Append(reg_order, producer)
            /\ UNCHANGED unpaused_push_producers
            /\ IF attrErr
               THEN /\ last' = Call("subchannel_registerProducer", "AttributeError", "none")
                    /\ UNCHANGED <<pull_producers, paused_push_producers, paused, last_signal>>
               ELSE /\ pull_producers' = pull2
                    /\ paused_push_producers' = pausedPush2
                    /\ IF ~invOk
                       THEN /\ last' = Call("subchannel_registerProducer", "AssertionError", "none")
                            /\ UNCHANGED <<paused, last_signal>>
                       ELSE /\ last_signal' = IF sig = "none" THEN last_signal
                                              ELSE [last_signal EXCEPT ![producer] = sig]
                            /\ paused' = (paused \/ reent)
                            /\ last' = Call("subchannel_registerProducer", IF reent THEN PauseError(all2, unpaused_push_producers)
                                            ELSE "ok", sig)
    /\ UNCHANGED <<ledger, pc, sent, call_signals, aligned, built, spin>>

\* the body of subchannel_unregisterProducer, shared with subchannel_closed
Unregister(sc, op) ==
    LET p == subchannel_producers[sc] IN
    IF p = NoProducer
    THEN \* dict.pop of a missing key
         /\ last' = Call(op, "KeyError", "none")
         /\ UNCHANGED <<registry, last_signal>>
    ELSE /\ subchannel_producers' = [subchannel_producers EXCEPT ![sc] = NoProducer]
         /\ UNCHANGED unpaused_push_producers
         /\ IF p \notin Range(all_producers)
            THEN \* deque.remove of a missing item
                 /\ last' = Call(op, "ValueError", "none")
                 /\ UNCHANGED <<all_producers, pull_producers, paused_push_producers,
                                reg_order, last_signal>>
            ELSE /\ all_producers' = RemoveFirst(all_producers, p)
                 /\ reg_order' = RemoveFirst(reg_order, p)
                 /\ pull_producers' = pull_producers \ {p}
                 /\ paused_push_producers' = paused_push_producers \ {p}
                 /\ last_signal' = [last_signal EXCEPT ![p] = "none"]
                 \* line 233 names _unpaused_producers, an attribute that is never set
                 /\ last' = Call(op, "AttributeError", "none")

subchannel_unregisterProducer(sc) ==
    /\ pc = "idle"
    /\ Unregister(sc, "subchannel_unregisterProducer")
    /\ UNCHANGED <<ledger, paused, pc, sent, call_signals, aligned, built, spin>>

subchannel_closed(sc) ==
    /\ pc = "idle"
    /\ IF ~CheckInvariants(all_producers, pull_producers, paused_push_producers,
                           unpaused_push_producers)
       THEN /\ last' = Call("subchannel_closed", "AssertionError", "none")
            /\ UNCHANGED <<registry, last_signal>>
       ELSE IF subchannel_producers[sc] # NoProducer
       THEN Unregister(sc, "subchannel_closed")
       ELSE /\ last' = Call("subchannel_closed", "ok", "none")
            /\ UNCHANGED <<registry, last_signal>>
    /\ UNCHANGED <<ledger, paused, pc, sent, call_signals, aligned, built, spin>>

\* ---------------------------------------------------------------- flow control
\* the body of pauseProducing, shared with stopProducing and
\* stop_using_connection.  No producer is ever moved or told to pause: the
\* first one found in _unpaused_push_producers raises (see PauseError).
Pause(op) ==
    IF paused
    THEN \* someone is confused and called us twice
         /\ last' = Call(op, "ok", "none")
         /\ UNCHANGED paused
    ELSE /\ paused' = TRUE
         /\ last' = Call(op, PauseError(all_producers, unpaused_push_producers), "none")

pauseProducing ==
    /\ pc = "idle"
    /\ Pause("pauseProducing")
    /\ UNCHANGED <<ledger, registry, history, pc, built>>

stopProducing ==
    /\ pc = "idle"
    /\ Pause("stopProducing")
    /\ UNCHANGED <<ledger, registry, history, pc, built>>

\* variant of Clear that leaves the oldest record behind
ClearKeepsHead(q) == IF q = <<>> THEN q ELSE <<Head(q)>>

\* line 252: self._queued_unsent.clear()
Clear(q) == <<>>

stop_using_connection ==
    /\ pc = "idle"
    /\ queued_unsent' = Clear(queued_unsent)
    /\ sent' = <<>>
    /\ Pause("stop_using_connection")
    /\ UNCHANGED <<outbound_queue, next_outbound_seqnum, pending, built>>
    /\ UNCHANGED <<registry, call_signals, last_signal, aligned, spin, pc>>

\* variant of Resume without the early return of lines 284-285
ResumeUnguarded(op) ==
    /\ paused' = FALSE
    /\ pc' = "loop"
    /\ call_signals' = <<>>
    /\ aligned' = (all_producers = reg_order)
    /\ spin' = FALSE
    /\ last' = Call(op, "ok", "none")

\* lines 284-286 of resumeProducing; the loop continues under pc = "loop"
Resume(op) ==
    IF ~paused
    THEN \* someone is confused and called us twice
         /\ last' = Call(op, "ok", "none")
         /\ UNCHANGED <<paused, pc, call_signals, aligned, spin>>
    ELSE /\ paused' = FALSE
         /\ pc' = "loop"
         /\ call_signals' = <<>>
         /\ aligned' = (all_producers = reg_order)
         /\ spin' = FALSE
         /\ last' = Call(op, "ok", "none")

resumeProducing ==
    /\ pc = "idle"
    /\ Resume("resumeProducing")
    /\ UNCHANGED <<ledger, registry, sent, last_signal, built>>

\* variant of Extend that copies the items newest first
ExtendReversed(q, items) ==
    q \o [i \in 1..Len(items) |-> items[Len(items) + 1 - i]]

\* line 245: self._queued_unsent.extend(self._outbound_queue)
Extend(q, items) == q \o items

\* c.registerProducer(self, True) only hands the connection a reference
use_connection ==
    /\ pc = "idle"
    /\ IF queued_unsent # <<>>
       THEN /\ last' = Call("use_connection", "AssertionError", "none")
            /\ UNCHANGED <<queued_unsent, sent, paused, pc, call_signals, aligned, spin>>
       ELSE /\ queued_unsent' = Extend(queued_unsent, outbound_queue)
            /\ sent' = <<>>
            /\ Resume("use_connection")
    /\ UNCHANGED <<outbound_queue, next_outbound_seqnum, pending, built>>
    /\ UNCHANGED <<registry, last_signal>>

\* the reentrant pauseProducing of a loop step: its effect on _paused and
\* the exception it raises through the callee
ReentPaused(reent) == IF reent THEN TRUE ELSE paused
ReentError(reent) ==
    IF reent /\ ~paused
    THEN PauseError(all_producers, unpaused_push_producers) ELSE "ok"

\* line 288 found false: resumeProducing returns
drain_exit ==
    /\ pc = "loop"
    /\ ~LoopCondition(paused)
    /\ pc' = "idle"
    /\ call_signals' = <<>>
    /\ aligned' = FALSE
    /\ spin' = FALSE
    /\ last' = Call("drain_exit", "ok", "none")
    /\ UNCHANGED <<ledger, registry, sent, last_signal, paused, built>>

\* lines 289-292: one replay record goes to the manager
drain_send_record(reent) ==
    /\ pc = "loop"
    /\ LoopCondition(paused)
    /\ queued_unsent # <<>>
    /\ queued_unsent' = Tail(queued_unsent)
    /\ sent' = Append(sent, Head(queued_unsent))
    /\ paused' = ReentPaused(reent)
    /\ pc' = IF ReentError(reent) = "ok" THEN "loop" ELSE "idle"
    /\ call_signals' = IF ReentError(reent) = "ok" THEN call_signals ELSE <<>>
    /\ aligned' = (aligned /\ ReentError(reent) = "ok")
    /\ spin' = (spin /\ ReentError(reent) = "ok")
    /\ last' = Call("drain_send_record", ReentError(reent), "none")
    /\ UNCHANGED <<outbound_queue, next_outbound_seqnum, pending, built>>
    /\ UNCHANGED <<registry, last_signal>>

\* lines 293-296 with _get_next_unpaused_producer: one producer gets a turn
\* variant of NoneWaiting that overlooks the pull-type producers
NoneWaitingPushOnly(pull, pausedPush) == pausedPush = {}

\* line 300: not self._pull_producers and not self._paused_push_producers
NoneWaiting(pull, pausedPush) == pull = {} /\ pausedPush = {}

drain_next_producer(reent) ==
    LET eligible == pull_producers \cup paused_push_producers
        turn == NextTurn(all_producers, eligible)
        p == turn.p
    IN
    /\ pc = "loop"
    /\ LoopCondition(paused)
    /\ queued_unsent = <<>>
    /\ IF ~CheckInvariants(all_producers, pull_producers, paused_push_producers,
                           unpaused_push_producers)
       THEN /\ ~reent
            /\ pc' = "idle"
            /\ call_signals' = <<>>
            /\ aligned' = FALSE
            /\ spin' = FALSE
            /\ last' = Call("drain_next_producer", "AssertionError", "none")
            /\ UNCHANGED <<all_producers, last_signal, paused>>
       ELSE IF NoneWaiting(pull_producers, paused_push_producers)
       THEN \* return None, break
            /\ ~reent
            /\ pc' = "idle"
            /\ call_signals' = <<>>
            /\ aligned' = FALSE
            /\ spin' = FALSE
            /\ last' = Call("drain_next_producer", "ok", "none")
            /\ UNCHANGED <<all_producers, last_signal, paused>>
       ELSE /\ all_producers' = turn.all
            /\ call_signals' = IF ReentError(reent) # "ok" THEN <<>>
                               ELSE IF Len(call_signals) < MaxTurns
                               THEN Append(call_signals, p)
                               ELSE call_signals
            /\ spin' = (~spin /\ ReentError(reent) = "ok")
            /\ last_signal' = [last_signal EXCEPT ![p] = "resume"]
            /\ paused' = ReentPaused(reent)
            /\ pc' = IF ReentError(reent) = "ok" THEN "loop" ELSE "idle"
            /\ aligned' = (aligned /\ ReentError(reent) = "ok")
            /\ last' = Call("drain_next_producer", ReentError(reent), "resume")
    /\ UNCHANGED <<ledger, subchannel_producers, pull_producers,
                   paused_push_producers, unpaused_push_producers,
                   reg_order, sent, built>>

\* ---------------------------------------------------------------- specification
Next ==
    \/ build_record
    \/ queue_record
    \/ \E m \in 0..(MaxSeq - 1) : handle_ack(m)
    \/ \E sc \in Subchannels, p \in Producers, streaming \in BOOLEAN, reent \in BOOLEAN :
          subchannel_registerProducer(sc, p, streaming, reent)
    \/ \E sc \in Subchannels : subchannel_unregisterProducer(sc)
    \/ \E sc \in Subchannels : subchannel_closed(sc)
    \/ pauseProducing
    \/ stopProducing
    \/ stop_using_connection
    \/ resumeProducing
    \/ use_connection
    \/ drain_exit
    \/ \E reent \in BOOLEAN : drain_send_record(reent)
    \/ \E reent \in BOOLEAN : drain_next_producer(reent)

Spec == Init /\ [][Next]_vars

\* a running resumeProducing keeps executing: every step of its loop that
\* can be taken is eventually taken
FairSpec ==
    /\ Spec
    /\ WF_vars(drain_exit)
    /\ WF_vars(\E reent \in BOOLEAN : drain_send_record(reent))
    /\ WF_vars(\E reent \in BOOLEAN : drain_next_producer(reent))

\* ---------------------------------------------------------------- properties
Count(s, x) == Cardinality({i \in 1..Len(s) : s[i] = x})
Ascending(s) == \A i, j \in 1..Len(s) : i < j => s[i] < s[j]
Above(q, m) == SelectSeq(q, LAMBDA r : r > m)
Mapped(sc) == subchannel_producers[sc] # NoProducer
PushProducers == paused_push_producers \cup unpaused_push_producers
\* the producers of reg_order that the loop may give a turn
EligibleInOrder ==
    SelectSeq(reg_order, LAMBDA p : p \in pull_producers \cup paused_push_producers)

\* C1 (as claimed): at every point the sets pull, paused_push and
\* unpaused_push are pairwise disjoint and their union is the set of
\* producers in the rotation.
C1_PartitionOfRotation ==
    /\ pull_producers \cap paused_push_producers = {}
    /\ pull_producers \cap unpaused_push_producers = {}
    /\ paused_push_producers \cap unpaused_push_producers = {}
    /\ pull_producers \cup paused_push_producers \cup unpaused_push_producers
         = Range(all_producers)

\* C2: in a run of the resumeProducing loop that found the rotation in
\* registration order, the resume signals go round the producers awaiting a
\* turn in registration order: the k-th signal goes to the ((k-1) mod N)+1-th
\* of them, so each gets its first signal before any gets a second.
C2_TurnsInRegistrationOrder ==
    (pc = "loop" /\ aligned) =>
        \A k \in 1..Len(call_signals) :
            /\ Len(EligibleInOrder) > 0
            /\ call_signals[k] = EligibleInOrder[((k - 1) % Len(EligibleInOrder)) + 1]

\* C2 witness: two push producers registered while paused, a second round begun
C2_Witness ==
    /\ pc = "loop"
    /\ aligned
    /\ ~paused
    /\ pull_producers = {}
    /\ Cardinality(paused_push_producers) >= 2
    /\ Len(call_signals) > Cardinality(paused_push_producers)

\* C3 (as claimed): while the loop runs with only push producers and no
\* reentrant pause, a producer that was given its turn has moved from
\* paused_push to unpaused_push and has been told to resume exactly once.
C3_TurnReclassifies ==
    (pc = "loop" /\ ~paused /\ pull_producers = {}) =>
        \A p \in Range(call_signals) :
            /\ p \in unpaused_push_producers
            /\ p \notin paused_push_producers
            /\ Count(call_signals, p) = 1

\* C4 (as claimed): the replay records of a connection go to the manager in
\* ascending seqnum order, and no call tells a producer to resume while the
\* replay queue is non-empty.
C4_ReplayBeforeTurns ==
    /\ Ascending(sent)
    /\ last.sig = "resume" => queued_unsent = <<>>

\* C5: handle_ack(m) leaves in the backlog (and in the replay queue) exactly
\* the records with seqnum > m, in their order; so a repeated or smaller ack
\* changes nothing and no record above the ack is removed.
C5_AckRetiresUpTo ==
    [][\A m \in 0..(MaxSeq - 1) :
          handle_ack(m) =>
              /\ outbound_queue' = Above(outbound_queue, m)
              /\ queued_unsent' = Above(queued_unsent, m)
              /\ next_outbound_seqnum' = next_outbound_seqnum]_vars

\* C5 witness: every record built was queued and an ack has retired the
\* oldest ones and kept the newest
C5_Witness ==
    /\ last.op = "handle_ack"
    /\ next_outbound_seqnum = MaxSeq
    /\ pending = <<>>
    /\ outbound_queue = <<MaxSeq - 1>>

\* C6 (as claimed): whenever the aggregate is left Paused, unpaused_push is
\* empty and the last signal given to every registered push producer is pause.
C6_PausedAllPaused ==
    (pc = "idle" /\ paused) =>
        /\ unpaused_push_producers = {}
        /\ \A p \in PushProducers : last_signal[p] = "pause"

\* C7: once a step of the loop has been re-entered by pauseProducing, the
\* next thing the loop does is return: no record is sent, no producer is
\* signalled or rotated, and the aggregate stays paused.
C7_LoopStopsWhenPaused ==
    [][(pc = "loop" /\ paused) =>
          /\ pc' = "idle"
          /\ paused'
          /\ last'.sig = "none"
          /\ UNCHANGED <<sent, queued_unsent, last_signal, all_producers>>]_vars

\* C7 witness: the loop stands at its test after a reentrant pause
C7_Witness ==
    /\ pc = "loop"
    /\ paused
    /\ last.op \in {"drain_send_record", "drain_next_producer"}
    /\ queued_unsent # <<>>

\* C8 (as claimed): registering on a subchannel that has a producer raises
\* the duplicate-registration ValueError and changes nothing.
C8_DuplicateRegistration ==
    [][\A sc \in Subchannels, p \in Producers, streaming \in BOOLEAN :
          (Mapped(sc) /\ subchannel_registerProducer(sc, p, streaming, FALSE)) =>
              /\ last'.err = "ValueError"
              /\ last'.sig = "none"
              /\ UNCHANGED <<registry, last_signal>>]_vars

\* C9 (as claimed): unregistering a mapped subchannel returns normally and
\* removes its producer from the mapping, the rotation and its set, leaving
\* the rest as it was; unregistering an unmapped one raises KeyError and
\* changes nothing.
C9_Unregister ==
    [][\A sc \in Subchannels :
          subchannel_unregisterProducer(sc) =>
              LET p == subchannel_producers[sc] IN
              IF Mapped(sc)
              THEN /\ last'.err = "ok"
                   /\ ~Mapped(sc)'
                   /\ all_producers' = RemoveFirst(all_producers, p)
                   /\ pull_producers' = pull_producers \ {p}
                   /\ paused_push_producers' = paused_push_producers \ {p}
                   /\ unpaused_push_producers' = unpaused_push_producers \ {p}
              ELSE /\ last'.err = "KeyError"
                   /\ UNCHANGED registry]_vars

\* C10 (as claimed): subchannel_closed never raises; a mapped producer is
\* removed as by unregister, and without one nothing changes.
C10_ClosedIsSilent ==
    [][\A sc \in Subchannels :
          subchannel_closed(sc) =>
              LET p == subchannel_producers[sc] IN
              /\ last'.err = "ok"
              /\ IF Mapped(sc)
                 THEN /\ ~Mapped(sc)'
                      /\ all_producers' = RemoveFirst(all_producers, p)
                      /\ pull_producers' = pull_producers \ {p}
                      /\ paused_push_producers' = paused_push_producers \ {p}
                      /\ unpaused_push_producers' = unpaused_push_producers \ {p}
                 ELSE UNCHANGED registry]_vars

\* everything of the object and its observers except the record of the last call
beyond_last == <<ledger, registry, history, paused, pc, built>>

\* C11: a pauseProducing that finds the aggregate already Paused, and a
\* resumeProducing that finds it already Unpaused, return without an error,
\* change no state, send no record and signal no producer: the second of
\* two calls in a row adds nothing to what the first one did.
C11_RedundantCallAbsorbed ==
    [][/\ (pauseProducing /\ paused) =>
              /\ UNCHANGED beyond_last
              /\ last' = Call("pauseProducing", "ok", "none")
       /\ (resumeProducing /\ ~paused) =>
              /\ UNCHANGED beyond_last
              /\ last' = Call("resumeProducing", "ok", "none")]_vars

\* a second resumeProducing in a row has returned at once
C11_Witness ==
    /\ last.op = "resumeProducing"
    /\ pc = "idle"
    /\ ~paused
    /\ pull_producers # {}

\* C12: the records build_record has returned carry the seqnums 0, 1, 2, ...
\* in that order, whatever was called in between, and the counter stands
\* at their number: no seqnum is skipped or handed out twice.
C12_SeqnumsCountUp ==
    /\ built = [i \in 1..Len(built) |-> i - 1]
    /\ next_outbound_seqnum = Len(built)

\* the last seqnum was handed out after an ack and a resume had intervened
C12_Witness ==
    /\ last.op = "build_record"
    /\ Len(built) = MaxSeq
    /\ outbound_queue = <<>>
    /\ ~paused

\* C13: use_connection with a non-empty replay queue raises AssertionError
\* and changes nothing; with an empty one it makes the replay queue a copy
\* of the whole backlog, in order, and at that point no record has been
\* sent and no producer signalled.
C13_AttachCopiesBacklog ==
    [][use_connection =>
          IF queued_unsent # <<>>
          THEN /\ last' = Call("use_connection", "AssertionError", "none")
               /\ UNCHANGED beyond_last
          ELSE /\ queued_unsent' = outbound_queue
               /\ sent' = <<>>
               /\ last' = Call("use_connection", "ok", "none")
               /\ UNCHANGED <<outbound_queue, last_signal>>]_vars

\* an attach has just copied a backlog of two records
C13_Witness ==
    /\ last.op = "use_connection"
    /\ last.err = "ok"
    /\ Len(outbound_queue) >= 2
    /\ queued_unsent = outbound_queue
    /\ sent = <<>>

\* C14: stop_using_connection empties the replay queue and leaves the
\* backlog and the counter alone; no step other than handle_ack takes a
\* record out of the backlog; and a use_connection that finds the replay
\* queue empty, as the detach left it, copies the backlog again in order.
C14_DetachKeepsBacklog ==
    [][/\ stop_using_connection =>
              /\ queued_unsent' = <<>>
              /\ UNCHANGED <<outbound_queue, next_outbound_seqnum>>
       /\ ~(Range(outbound_queue) \subseteq Range(outbound_queue')) =>
              last'.op = "handle_ack"
       /\ (use_connection /\ last.op = "stop_using_connection") =>
              queued_unsent' = outbound_queue]_vars

\* a detach has left a full backlog behind an empty replay queue
C14_Witness ==
    /\ last.op = "stop_using_connection"
    /\ Len(outbound_queue) = MaxSeq
    /\ queued_unsent = <<>>
    /\ next_outbound_seqnum = MaxSeq

\* C15: registering a push-type producer on an unmapped subchannel while
\* the aggregate is Unpaused succeeds: the producer is in the mapping, at
\* the tail of the rotation and in unpaused_push, and is told nothing.
C15_PushJoinsUnpaused ==
    [][\A sc \in Subchannels, p \in Producers :
          (subchannel_registerProducer(sc, p, TRUE, FALSE) /\ ~Mapped(sc) /\ ~paused) =>
              /\ last' = Call("subchannel_registerProducer", "ok", "none")
              /\ subchannel_producers'[sc] = p
              /\ all_producers' = Append(all_producers, p)
              /\ p \in unpaused_push_producers'
              /\ last_signal'[p] = "none"]_vars

\* C16: a registration that returns normally files the producer and
\* signals it by the aggregate flag and the capability alone: push while
\* Paused goes to paused_push with one pause; pull while Unpaused goes to
\* pull with one resume; pull while Paused goes to pull with no signal.
C16_AdmissionByFlagAndCapability ==
    [][(last'.op = "subchannel_registerProducer" /\ last'.err = "ok") =>
       \A sc \in Subchannels, p \in Producers, streaming \in BOOLEAN, reent \in BOOLEAN :
          subchannel_registerProducer(sc, p, streaming, reent) =>
              /\ (streaming /\ paused) =>
                     /\ p \in paused_push_producers' \ paused_push_producers
                     /\ p \notin pull_producers'
                     /\ last'.sig = "pause"
                     /\ last_signal'[p] = "pause"
              /\ (~streaming /\ ~paused) =>
                     /\ p \in pull_producers' \ pull_producers
                     /\ p \notin paused_push_producers'
                     /\ last'.sig = "resume"
                     /\ last_signal'[p] = "resume"
              /\ (~streaming /\ paused) =>
                     /\ p \in pull_producers' \ pull_producers
                     /\ p \notin paused_push_producers'
                     /\ last'.sig = "none"
                     /\ last_signal'[p] = "none"]_vars

\* a pull-type producer has just been registered while Unpaused and resumed
C16_Witness ==
    /\ last = Call("subchannel_registerProducer", "ok", "resume")
    /\ \E p \in pull_producers :
          /\ last_signal[p] = "resume"
          /\ all_producers[Len(all_producers)] = p

\* C17: a signal delivered to a registered push-type producer is never of
\* the kind of the signal delivered to it last: pause and resume alternate.
C17_PushSignalsAlternate ==
    [][/\ \A reent \in BOOLEAN :
              (drain_next_producer(reent) /\ last'.sig = "resume") =>
                  LET p == NextTurn(all_producers,
                                    pull_producers \cup paused_push_producers).p
                  IN  p \in PushProducers => last_signal[p] # "resume"
       /\ \A sc \in Subchannels, p \in Producers, reent \in BOOLEAN :
              (subchannel_registerProducer(sc, p, TRUE, reent) /\ last'.sig # "none") =>
                  last_signal[p] # last'.sig]_vars

IsSubsequence(q, p) ==
    \E f \in [1..Len(q) -> 1..Len(p)] :
        /\ \A i \in 1..Len(q) : q[i] = p[f[i]]
        /\ \A i, j \in 1..Len(q) : i < j => f[i] < f[j]

\* C19: whenever no call is in progress and the aggregate is Unpaused, the
\* replay queue is empty.
C19_UnpausedMeansCaughtUp ==
    (pc = "idle" /\ ~paused) => queued_unsent = <<>>

\* C20: with records enqueued in build order, the replay queue is a
\* subsequence of the backlog in the backlog's order, both ascend strictly
\* by seqnum, and after handle_ack(m) neither holds a seqnum <= m.
C20_ReplayWithinBacklog ==
    [][/\ IsSubsequence(queued_unsent', outbound_queue')
       /\ Ascending(outbound_queue')
       /\ Ascending(queued_unsent')
       /\ last'.op = "handle_ack" =>
              \A m \in 0..(MaxSeq - 1) :
                  handle_ack(m) =>
                      \A r \in Range(outbound_queue') \cup Range(queued_unsent') : r > m]_vars

\* an ack has trimmed the backlog and a replay queue that was part-way sent
C20_Witness ==
    /\ last.op = "handle_ack"
    /\ queued_unsent # <<>>
    /\ sent # <<>>
    /\ Head(queued_unsent) > 0
    /\ outbound_queue = queued_unsent
====
